---- MODULE Spec2Model ----
(***************************************************************************)
(* The blueprint validation engine of pkg/config/validate.go:              *)
(* BlueprintConfig.validate and the stages and helpers it calls.           *)
(*                                                                         *)
(* Go strings that the code parses (variable references) are sequences of  *)
(* tokens: the delimiters "((" and "))", the separator "." and words.      *)
(* Map keys, validator names and resource fields, which the code only      *)
(* compares, are TLA+ strings.  An interface{} value is a record           *)
(* [t, v]: its dynamic type and, for a string, its tokens.                 *)
(***************************************************************************)
EXTENDS Integers, Sequences, FiniteSets, TLC

VARIABLES
    Vars,             \* bc.Config.Vars: variable name -> interface{} value
    ValidationLevel,  \* bc.Config.ValidationLevel
    Validators,       \* bc.Config.Validators: sequence of validatorConfig
    ResourceGroups,   \* bc.Config.ResourceGroups: sequence of groups
    pc,               \* position of the running function
    i,                \* executeValidators: index of the next invocation
    g,                \* resource stages: index of the current group
    r,                \* resource stages: index of the next resource in the group
    errored,          \* executeValidators: local flag
    warned,           \* executeValidators: local flag
    log,              \* lines written through package log, oldest first
    trace,            \* calls made and returns taken, oldest first
    call,             \* the entry point called and its arguments
    ret               \* what a directly called function returned

vars == <<Vars, ValidationLevel, Validators, ResourceGroups, pc, i, g, r,
          errored, warned, log, trace, call, ret>>

(***************************************************************************)
(* Bounds of the checked instances.                                        *)
(***************************************************************************)
MaxRefLen == 5
MaxRequired == 3
MaxValidators == 3
MaxGroups == 2
MaxResources == 3

SeqsUpTo(S, n) == UNION {[1..k -> S] : k \in 0..n}

Range(s) == {s[k] : k \in DOMAIN s}

(***************************************************************************)
(* interface{} values and errors.                                          *)
(***************************************************************************)
Nil == [t |-> "nil", v |-> <<>>]
Str(s) == [t |-> "string", v |-> s]
IntVal == [t |-> "int", v |-> <<>>]
MapVal == [t |-> "map[string]interface{}", v |-> <<>>]

NoError == [kind |-> "nil", name |-> "", ref |-> Nil]
Err(kind, name, ref) == [kind |-> kind, name |-> name, ref |-> ref]
IsErr(e) == e.kind # "nil"

validationErrorMsg == "validation failed due to the issues listed above"

validationError == "ERROR"
validationWarning == "WARNING"
validationIgnore == "IGNORE"

Line(msg, name, e) == [msg |-> msg, name |-> name, err |-> e]

(***************************************************************************)
(* strings.Split, and the two reference helpers of the package.            *)
(***************************************************************************)
RECURSIVE Split(_, _)
Split(s, sep) ==
    IF \A k \in 1..Len(s) : s[k] # sep
    THEN <<s>>
    ELSE LET k == CHOOSE k \in 1..Len(s) :
                      s[k] = sep /\ \A j \in 1..(k - 1) : s[j] # sep
         IN  <<SubSeq(s, 1, k - 1)>> \o Split(SubSeq(s, k + 1, Len(s)), sep)

\* A reference of the form "source.name" wrapped in the delimiters (( and )).
IsLiteralVariable(str) ==
    /\ Len(str) >= 2
    /\ str[1] = "(("
    /\ str[Len(str)] = "))"
    /\ \E k \in 2..(Len(str) - 1) : str[k] = "."

\* The text between the delimiters.
HandleLiteralVariable(str) == SubSeq(str, 2, Len(str) - 1)

\* vars[name] is defined: the tables' keys are single words.
HasKey(m, name) == Len(name) = 1 /\ name[1] \in DOMAIN m

(***************************************************************************)
(* BlueprintConfig.getStringValue                                          *)
(***************************************************************************)
getStringValueNoSrcCheck(table, inputReference) ==
    LET notGlobal == [val |-> <<>>,
                      err |-> Err("is not a global variable or was not defined",
                                  "", inputReference)]
    IN
    IF inputReference.t # "string"
    THEN [val |-> <<>>,
          err |-> Err("cannot be cast to a string", "", inputReference)]
    ELSE
    LET varRef == inputReference.v IN
    IF ~IsLiteralVariable(varRef) THEN notGlobal
    ELSE
    LET varSlice == Split(HandleLiteralVariable(varRef), ".") IN
    IF Len(varSlice) < 2
    THEN [val |-> <<>>, err |-> Err("panic: index out of range", "", inputReference)]
    ELSE
    LET varName == varSlice[2] IN
    IF HasKey(table, varName)
    THEN LET val == table[varName[1]] IN
         IF val.t = "string"
         THEN [val |-> val.v, err |-> NoError]
         ELSE [val |-> <<>>,
               err |-> Err("is not a string", "", inputReference)]
    ELSE notGlobal

getStringValue(table, inputReference) ==
    LET notGlobal == [val |-> <<>>,
                      err |-> Err("is not a global variable or was not defined",
                                  "", inputReference)]
    IN
    IF inputReference.t # "string"
    THEN [val |-> <<>>,
          err |-> Err("cannot be cast to a string", "", inputReference)]
    ELSE
    LET varRef == inputReference.v IN
    IF ~IsLiteralVariable(varRef) THEN notGlobal
    ELSE
    LET varSlice == Split(HandleLiteralVariable(varRef), ".") IN
    IF Len(varSlice) < 2
    THEN [val |-> <<>>, err |-> Err("panic: index out of range", "", inputReference)]
    ELSE
    LET varSrc == varSlice[1]
        varName == varSlice[2]
    IN
    IF varSrc = <<"var">> /\ HasKey(table, varName)
    THEN LET val == table[varName[1]] IN
         IF val.t = "string"
         THEN [val |-> val.v, err |-> NoError]
         ELSE [val |-> <<>>,
               err |-> Err("is not a string", "", inputReference)]
    ELSE notGlobal

(***************************************************************************)
(* testInputList                                                           *)
(***************************************************************************)
MissingLines(function, inputs, requiredInputs) ==
    LET missing == SelectSeq(requiredInputs, LAMBDA k : k \notin DOMAIN inputs)
    IN  [k \in 1..Len(missing) |->
            Line("a required input was not provided", function,
                 Err("missing", missing[k], Nil))]

testInputListNoLenCheck(function, inputs, requiredInputs) ==
    LET lines == MissingLines(function, inputs, requiredInputs)
        errd == Len(lines) > 0
    IN
    IF errd
    THEN [log |-> lines,
          err |-> Err("at least one required input was not provided", function, Nil)]
    ELSE [log |-> lines, err |-> NoError]

testInputList(function, inputs, requiredInputs) ==
    LET lines == MissingLines(function, inputs, requiredInputs)
        errd == Len(lines) > 0
    IN
    IF errd
    THEN [log |-> lines,
          err |-> Err("at least one required input was not provided", function, Nil)]
    ELSE IF Len(requiredInputs) # Cardinality(DOMAIN inputs)
    THEN [log |-> lines,
          err |-> Err("only these inputs should be provided", function, Nil)]
    ELSE [log |-> lines, err |-> NoError]

(***************************************************************************)
(* The precondition validators.  perr is what the provider query answers   *)
(* when it is reached: NoError or an error, returned verbatim.             *)
(***************************************************************************)
testProjectExistsName == "test_project_exists"
testRegionExistsName == "test_region_exists"
testZoneExistsName == "test_zone_exists"
testZoneInRegionName == "test_zone_in_region"

Event(ev, fn, at, e) == [ev |-> ev, fn |-> fn, at |-> at, err |-> e]

funcErrorMsg(funcName) == Line("validator failed", funcName, NoError)

Outcome(lines, e, events) == [log |-> lines, err |-> e, events |-> events]

wrongValidator(funcName) ==
    Outcome(<<>>, Err("passed wrong validator to implementation", funcName, Nil), <<>>)

\* The provider query, reached with every input resolved.
query(fn, funcName, perr) ==
    Outcome(IF IsErr(perr) THEN <<funcErrorMsg(funcName)>> ELSE <<>>,
            perr,
            <<Event("call", fn, <<>>, perr)>>)

\* The getStringValue calls of a validator, in the order the code makes
\* them, up to the first that fails.
RECURSIVE resolve(_, _, _)
resolve(table, inputs, order) ==
    IF order = <<>> THEN NoError
    ELSE LET x == getStringValue(table, inputs[Head(order)]) IN
         IF IsErr(x.err) THEN x.err ELSE resolve(table, inputs, Tail(order))

testProjectExists(table, validator, perr) ==
    LET requiredInputs == <<"project_id">>
        funcName == testProjectExistsName
    IN
    IF validator.Validator # funcName THEN wrongValidator(funcName)
    ELSE
    LET t == testInputList(validator.Validator, validator.Inputs, requiredInputs) IN
    IF IsErr(t.err)
    THEN Outcome(t.log \o <<funcErrorMsg(funcName)>>, t.err, <<>>)
    ELSE
    LET e == resolve(table, validator.Inputs, <<"project_id">>) IN
    IF IsErr(e)
    THEN Outcome(t.log \o <<funcErrorMsg(funcName)>>, e, <<>>)
    ELSE query("validators.TestProjectExists", funcName, perr)

testRegionExists(table, validator, perr) ==
    LET requiredInputs == <<"project_id", "region">>
        funcName == testRegionExistsName
    IN
    IF validator.Validator # funcName THEN wrongValidator(funcName)
    ELSE
    LET t == testInputList(validator.Validator, validator.Inputs, requiredInputs) IN
    IF IsErr(t.err)
    THEN Outcome(t.log, t.err, <<>>)
    ELSE
    LET e == resolve(table, validator.Inputs, <<"project_id", "region">>) IN
    IF IsErr(e)
    THEN Outcome(t.log \o <<funcErrorMsg(funcName)>>, e, <<>>)
    ELSE query("validators.TestRegionExists", funcName, perr)

testZoneExists(table, validator, perr) ==
    LET requiredInputs == <<"project_id", "zone">>
        funcName == testZoneExistsName
    IN
    IF validator.Validator # funcName THEN wrongValidator(funcName)
    ELSE
    LET t == testInputList(validator.Validator, validator.Inputs, requiredInputs) IN
    IF IsErr(t.err)
    THEN Outcome(t.log, t.err, <<>>)
    ELSE
    LET e == resolve(table, validator.Inputs, <<"project_id", "zone">>) IN
    IF IsErr(e)
    THEN Outcome(t.log \o <<funcErrorMsg(funcName)>>, e, <<>>)
    ELSE query("validators.TestZoneExists", funcName, perr)

testZoneInRegion(table, validator, perr) ==
    LET requiredInputs == <<"project_id", "region", "zone">>
        funcName == testZoneInRegionName
    IN
    IF validator.Validator # funcName THEN wrongValidator(funcName)
    ELSE
    LET t == testInputList(validator.Validator, validator.Inputs, requiredInputs) IN
    IF IsErr(t.err)
    THEN Outcome(t.log, t.err, <<>>)
    ELSE
    LET e == resolve(table, validator.Inputs, <<"project_id", "zone", "region">>) IN
    IF IsErr(e)
    THEN Outcome(t.log \o <<funcErrorMsg(funcName)>>, e, <<>>)
    ELSE query("validators.TestZoneInRegion", funcName, perr)

\* The registry: the names that have a handler.
getValidators ==
    {testProjectExistsName, testRegionExistsName,
     testZoneExistsName, testZoneInRegionName}

\* f(validator) for the handler f registered under name.
callHandler(name, table, validator, perr) ==
    CASE name = testProjectExistsName -> testProjectExists(table, validator, perr)
      [] name = testRegionExistsName -> testRegionExists(table, validator, perr)
      [] name = testZoneExistsName -> testZoneExists(table, validator, perr)
      [] name = testZoneInRegionName -> testZoneInRegion(table, validator, perr)

(***************************************************************************)
(* BlueprintConfig.validateVars.  Go ranges over a map in no fixed order:  *)
(* with several nil values any of their keys may be the one reported.      *)
(***************************************************************************)
validateVarsLog(table) ==
    IF "project_id" \notin DOMAIN table
    THEN <<Line("WARNING: No project_id in global variables", "", NoError)>>
    ELSE <<>>

validateVarsNoNilCheck(table) ==
    IF "labels" \in DOMAIN table /\ table["labels"].t # MapVal.t
    THEN {Err("vars.labels must be a map", "", Nil)}
    ELSE {NoError}

validateVars(table) ==
    IF "labels" \in DOMAIN table /\ table["labels"].t # MapVal.t
    THEN {Err("vars.labels must be a map", "", Nil)}
    ELSE LET nils == {key \in DOMAIN table : table[key].t = Nil.t} IN
         IF nils # {}
         THEN {Err("global variable was not set", key, Nil) : key \in nils}
         ELSE {NoError}

(***************************************************************************)
(* BlueprintConfig.executeValidators                                       *)
(***************************************************************************)
skipsNothing(level) == FALSE

\* The early return taken before the loop.
skipsValidators(level) == level = validationIgnore

\* The classification of a failed handler.
classifyAlwaysError(level) ==
    [warned |-> FALSE, errored |-> TRUE, prefix |-> "error: "]

classify(level) ==
    IF level = validationWarning
    THEN [warned |-> TRUE, errored |-> FALSE, prefix |-> "warning: "]
    ELSE [warned |-> FALSE, errored |-> TRUE, prefix |-> "error: "]

\* The classification of a name with no handler.
unimplementedByPolicy(level, name) ==
    [warned |-> level = validationWarning,
     errored |-> level # validationWarning,
     log |-> <<Line("is not an implemented validator", name, NoError)>>]

unimplemented(level, name) ==
    [warned |-> FALSE,
     errored |-> TRUE,
     log |-> <<Line("is not an implemented validator", name, NoError)>>]

\* One iteration of the loop over bc.Config.Validators.
loopBody(table, level, validator, k, perr) ==
    IF validator.Validator \in getValidators
    THEN LET o == callHandler(validator.Validator, table, validator, perr)
             c == classify(level)
         IN  [warned |-> IsErr(o.err) /\ c.warned,
              errored |-> IsErr(o.err) /\ c.errored,
              log |-> IF IsErr(o.err)
                      THEN o.log \o <<Line(c.prefix, "", o.err), Line("", "", NoError)>>
                      ELSE o.log,
              events |-> <<Event("call", validator.Validator, <<k>>, o.err)>>
                         \o o.events]
    ELSE LET u == unimplemented(level, validator.Validator) IN
         [warned |-> u.warned,
          errored |-> u.errored,
          log |-> u.log,
          events |-> <<Event("lookup miss", validator.Validator, <<k>>,
                             Err("not implemented", validator.Validator, Nil))>>]

nextIndexFailFast(k, n, failed) == IF failed THEN n + 1 ELSE k + 1

\* The range loop: the index after k.
nextIndex(k, n, failed) == k + 1

\* The block printed once after the loop when anything failed.
guidanceText ==
    <<"validator failures can indicate a credentials problem.",
      "troubleshooting info appears at:",
      "",
      "https://github.com/GoogleCloudPlatform/hpc-toolkit/blob/main/README.md#supplying-cloud-credentials-to-terraform",
      "",
      "validation can be configured:",
      "- treat failures as warnings by using the create command",
      "  with the flag --validation-level WARNING",
      "- can be disabled entirely by using the create command",
      "  with the flag --validation-level IGNORE",
      "- a custom set of validators can be configured following",
      "  instructions at:",
      "",
      "https://github.com/GoogleCloudPlatform/hpc-toolkit/blob/main/README.md#blueprint-warnings-and-errors">>

guidance == [k \in DOMAIN guidanceText |-> Line(guidanceText[k], "", NoError)]

(***************************************************************************)
(* Resources.                                                              *)
(***************************************************************************)
\* resreader.IsValidKind
IsValidKind(kind) == kind \in {"terraform", "packer"}

validateResource(c) ==
    IF c.ID = "" THEN Err("emptyID", c.ID, Nil)
    ELSE IF c.Source = "" THEN Err("emptySource", c.ID, Nil)
    ELSE IF ~IsValidKind(c.Kind) THEN Err("wrongKind", c.ID, Nil)
    ELSE NoError

\* The first declared output the module does not produce.
validateOutputs(res, resInfo) ==
    LET outputsMap == IF Len(res.Outputs) > 0 THEN Range(resInfo.Outputs) ELSE {}
        bad == SelectSeq(res.Outputs, LAMBDA output : output \notin outputsMap)
    IN  IF bad # <<>> THEN Err("invalidOutput", Head(bad), Str(<<res.ID>>))
        ELSE NoError

\* Ranging over res.Settings, a map: any unexpected key may come first.
validateSettings(res, info) ==
    LET Inputs == {info.Inputs[k].Name : k \in DOMAIN info.Inputs}
        extra == {k \in DOMAIN res.Settings : k \notin Inputs}
    IN  IF extra # {}
        THEN {Err("extraSetting", k, Str(<<res.ID>>)) : k \in extra}
        ELSE {NoError}

\* The metadata of the module at a source; a source with none has the zero
\* ResourceInfo.
ModuleInfo(source) ==
    IF source = "modA"
    THEN [Inputs |-> <<[Name |-> "a", Required |-> TRUE],
                       [Name |-> "b", Required |-> FALSE]>>,
          Outputs |-> <<"o1">>]
    ELSE [Inputs |-> <<>>, Outputs |-> <<>>]

\* The position of the first resource at or after (gg, rr), in declaration
\* order; <<Len(groups) + 1, 1>> when there is none.
RECURSIVE seek(_, _, _)
seek(groups, gg, rr) ==
    IF gg > Len(groups) THEN <<Len(groups) + 1, 1>>
    ELSE IF rr <= Len(groups[gg].Resources) THEN <<gg, rr>>
    ELSE seek(groups, gg + 1, 1)

\* validateResources on one resource: the error it returns, NoError to go on.
resourceCheckOutputsIgnored(res, resInfo) ==
    LET e == validateResource(res) IN
    [err |-> e,
     events |-> <<Event("call", "validateResource", <<>>, e)>>
                \o IF IsErr(e) THEN <<>>
                   ELSE <<Event("call", "validateOutputs", <<>>,
                                validateOutputs(res, resInfo))>>]

resourceCheck(res, resInfo) ==
    LET e == validateResource(res) IN
    IF IsErr(e)
    THEN [err |-> e, events |-> <<Event("call", "validateResource", <<>>, e)>>]
    ELSE LET o == validateOutputs(res, resInfo) IN
         [err |-> o,
          events |-> <<Event("call", "validateResource", <<>>, e),
                       Event("call", "validateOutputs", <<>>, o)>>]

\* What validate does with a stage's result: log.Fatal, or the next stage.
afterStageIgnoringErr(e, next) == next

afterStage(e, next) == IF IsErr(e) THEN "fatal" ELSE next

(***************************************************************************)
(* The blueprints and arguments the model is run on.                       *)
(***************************************************************************)
Ref(k) == Str(<<"((", "var", ".", k, "))">>)

VarsFull ==
    [k \in {"project_id", "region", "zone", "labels"} |->
        CASE k = "project_id" -> Str(<<"my-proj">>)
          [] k = "region" -> Str(<<"us-central1">>)
          [] k = "zone" -> Str(<<"us-central1-a">>)
          [] k = "labels" -> MapVal]

VarsPartial ==
    [k \in {"project_id", "region"} |->
        IF k = "project_id" THEN Str(<<"my-proj">>) ELSE IntVal]

VarKeys == {"project_id", "labels", "zone"}

\* Every table over VarKeys.
VarsTables ==
    UNION {[S -> {Str(<<"my-proj">>), IntVal, MapVal, Nil}] : S \in SUBSET VarKeys}

Invocation(name, keys) == [Validator |-> name, Inputs |-> [k \in keys |-> Ref(k)]]

Invocations ==
    {Invocation(testProjectExistsName, {"project_id"}),
     Invocation(testProjectExistsName, {}),
     Invocation(testRegionExistsName, {"project_id", "region"}),
     Invocation(testRegionExistsName, {"project_id"}),
     [Validator |-> testZoneExistsName,
      Inputs |-> [k \in {"project_id", "zone"} |->
                     IF k = "zone" THEN Str(<<"us-central1-a">>) ELSE Ref(k)]],
     Invocation(testZoneInRegionName, {"project_id", "region", "zone"}),
     Invocation(testZoneInRegionName, {"project_id", "region", "zone", "extra"}),
     Invocation("test_unknown", {"project_id"})}

ProviderAnswers == {NoError, Err("provider query failed", "", Nil)}

FetchAnswers == {NoError, Err("GetResourceInfo failed", "", Nil)}

Resource(id, source, kind, settings, outputs) ==
    [ID |-> id, Source |-> source, Kind |-> kind,
     Settings |-> [k \in settings |-> IntVal], Outputs |-> outputs]

Resources ==
    {Resource("ok", "modA", "terraform", {"a"}, <<"o1">>),
     Resource("", "modA", "terraform", {}, <<>>),
     Resource("nosource", "", "terraform", {}, <<>>),
     Resource("badkind", "modA", "ansible", {}, <<>>),
     Resource("badoutput", "modA", "packer", {"b"}, <<"o1", "o2">>),
     Resource("extra", "modA", "terraform", {"a", "x", "y"}, <<>>)}

RECURSIVE Sum(_)
Sum(s) == IF s = <<>> THEN 0 ELSE Head(s) + Sum(Tail(s))

\* flat cut into len(sizes) groups of the given sizes.
RECURSIVE Grouped(_, _, _)
Grouped(flat, sizes, n) ==
    IF sizes = <<>> THEN <<>>
    ELSE <<[Name |-> n, Resources |-> SubSeq(flat, 1, Head(sizes))]>>
         \o Grouped(SubSeq(flat, Head(sizes) + 1, Len(flat)), Tail(sizes), n + 1)

\* Every blueprint of at most MaxGroups groups and MaxResources resources.
GroupLists ==
    {Grouped(flat, sizes, 1) :
        <<flat, sizes>> \in
            {p \in SeqsUpTo(Resources, MaxResources)
                     \X SeqsUpTo(0..MaxResources, MaxGroups) :
                Sum(p[2]) = Len(p[1])}}

(***************************************************************************)
(* BlueprintConfig.validate, stage by stage.                               *)
(***************************************************************************)
At(events, pos) == [k \in DOMAIN events |-> [events[k] EXCEPT !.at = pos]]

ValidateVars ==
    /\ pc = "validateVars"
    /\ \E e \in validateVars(Vars) :
          /\ log' = log \o validateVarsLog(Vars)
          /\ trace' = trace \o <<Event("call", "validateVars", <<>>, NoError),
                                 Event("return", "validateVars", <<>>, e)>>
          /\ pc' = afterStage(e, "executeValidators")
    /\ UNCHANGED <<Vars, ValidationLevel, Validators, ResourceGroups, i, g, r,
                   errored, warned, call, ret>>

ExecuteValidatorsEnter ==
    /\ pc = "executeValidators"
    /\ errored' = FALSE
    /\ warned' = FALSE
    /\ i' = 1
    /\ IF skipsValidators(ValidationLevel)
       THEN /\ trace' = trace \o <<Event("call", "executeValidators", <<>>, NoError),
                                   Event("return", "executeValidators", <<>>, NoError)>>
            /\ pc' = afterStage(NoError, "validateResources")
       ELSE /\ trace' = trace \o <<Event("call", "executeValidators", <<>>, NoError)>>
            /\ pc' = "executeValidators.loop"
    /\ UNCHANGED <<Vars, ValidationLevel, Validators, ResourceGroups, g, r,
                   log, call, ret>>

DispatchStep ==
    /\ pc = "executeValidators.loop"
    /\ i <= Len(Validators)
    /\ \E perr \in ProviderAnswers :
          LET b == loopBody(Vars, ValidationLevel, Validators[i], i, perr) IN
          /\ errored' = (errored \/ b.errored)
          /\ warned' = (warned \/ b.warned)
          /\ log' = log \o b.log
          /\ trace' = trace \o b.events
          /\ i' = nextIndex(i, Len(Validators), b.errored \/ b.warned)
    /\ UNCHANGED <<Vars, ValidationLevel, Validators, ResourceGroups, pc, g, r,
                   call, ret>>

ExecuteValidatorsReturn ==
    /\ pc = "executeValidators.loop"
    /\ i > Len(Validators)
    /\ LET e == IF errored THEN Err(validationErrorMsg, "", Nil) ELSE NoError IN
          /\ log' = log \o (IF warned \/ errored THEN guidance ELSE <<>>)
          /\ trace' = trace \o <<Event("return", "executeValidators", <<>>, e)>>
          /\ pc' = afterStage(e, "validateResources")
    /\ UNCHANGED <<Vars, ValidationLevel, Validators, ResourceGroups, i, g, r,
                   errored, warned, call, ret>>

ValidateResourcesEnter ==
    /\ pc = "validateResources"
    /\ trace' = trace \o <<Event("call", "validateResources", <<>>, NoError)>>
    /\ g' = seek(ResourceGroups, 1, 1)[1]
    /\ r' = seek(ResourceGroups, 1, 1)[2]
    /\ pc' = "validateResources.loop"
    /\ UNCHANGED <<Vars, ValidationLevel, Validators, ResourceGroups, i,
                   errored, warned, log, call, ret>>

ValidateResourcesStep ==
    /\ pc = "validateResources.loop"
    /\ g <= Len(ResourceGroups)
    /\ LET res == ResourceGroups[g].Resources[r]
           c == resourceCheck(res, ModuleInfo(res.Source))
       IN  IF IsErr(c.err)
           THEN /\ trace' = trace \o At(c.events, <<g, r>>)
                               \o <<Event("return", "validateResources", <<>>, c.err)>>
                /\ pc' = afterStage(c.err, "validateResourceSettings")
                /\ UNCHANGED <<g, r>>
           ELSE /\ trace' = trace \o At(c.events, <<g, r>>)
                /\ g' = seek(ResourceGroups, g, r + 1)[1]
                /\ r' = seek(ResourceGroups, g, r + 1)[2]
                /\ UNCHANGED pc
    /\ UNCHANGED <<Vars, ValidationLevel, Validators, ResourceGroups, i,
                   errored, warned, log, call, ret>>

ValidateResourcesReturn ==
    /\ pc = "validateResources.loop"
    /\ g > Len(ResourceGroups)
    /\ trace' = trace \o <<Event("return", "validateResources", <<>>, NoError)>>
    /\ pc' = afterStage(NoError, "validateResourceSettings")
    /\ UNCHANGED <<Vars, ValidationLevel, Validators, ResourceGroups, i, g, r,
                   errored, warned, log, call, ret>>

ValidateResourceSettingsEnter ==
    /\ pc = "validateResourceSettings"
    /\ trace' = trace \o <<Event("call", "validateResourceSettings", <<>>, NoError)>>
    /\ g' = seek(ResourceGroups, 1, 1)[1]
    /\ r' = seek(ResourceGroups, 1, 1)[2]
    /\ pc' = "validateResourceSettings.loop"
    /\ UNCHANGED <<Vars, ValidationLevel, Validators, ResourceGroups, i,
                   errored, warned, log, call, ret>>

\* One resource: the metadata fetch, then validateSettings on what it gave.
settingsCheck(res, ferr, serr) ==
    IF IsErr(ferr)
    THEN [err |-> Err("failed to get info for module", res.Source, Nil),
          events |-> <<Event("call", "GetResourceInfo", <<>>, ferr)>>]
    ELSE [err |-> IF IsErr(serr)
                  THEN Err("found an issue while validating settings", res.Source, Nil)
                  ELSE NoError,
          events |-> <<Event("call", "GetResourceInfo", <<>>, ferr),
                       Event("call", "validateSettings", <<>>, serr)>>]

ValidateResourceSettingsStep ==
    /\ pc = "validateResourceSettings.loop"
    /\ g <= Len(ResourceGroups)
    /\ LET res == ResourceGroups[g].Resources[r] IN
       \E ferr \in FetchAnswers :
       \E serr \in validateSettings(res, ModuleInfo(res.Source)) :
          LET c == settingsCheck(res, ferr, serr) IN
          IF IsErr(c.err)
          THEN /\ trace' = trace \o At(c.events, <<g, r>>)
                              \o <<Event("return", "validateResourceSettings", <<>>, c.err)>>
               /\ pc' = afterStage(c.err, "done")
               /\ UNCHANGED <<g, r>>
          ELSE /\ trace' = trace \o At(c.events, <<g, r>>)
               /\ g' = seek(ResourceGroups, g, r + 1)[1]
               /\ r' = seek(ResourceGroups, g, r + 1)[2]
               /\ UNCHANGED pc
    /\ UNCHANGED <<Vars, ValidationLevel, Validators, ResourceGroups, i,
                   errored, warned, log, call, ret>>

ValidateResourceSettingsReturn ==
    /\ pc = "validateResourceSettings.loop"
    /\ g > Len(ResourceGroups)
    /\ trace' = trace \o <<Event("return", "validateResourceSettings", <<>>, NoError)>>
    /\ pc' = afterStage(NoError, "done")
    /\ UNCHANGED <<Vars, ValidationLevel, Validators, ResourceGroups, i, g, r,
                   errored, warned, log, call, ret>>

Start ==
    /\ pc = "validateVars"
    /\ i = 1
    /\ g = 1
    /\ r = 1
    /\ errored = FALSE
    /\ warned = FALSE
    /\ log = <<>>
    /\ trace = <<>>
    /\ call = [fn |-> "validate"]
    /\ ret = [err |-> NoError]

\* Blueprints that vary the variable table.
InitVars ==
    /\ Vars \in VarsTables
    /\ ValidationLevel \in {validationError, validationIgnore}
    /\ Validators \in {<<>>, <<Invocation(testProjectExistsName, {"project_id"})>>}
    /\ ResourceGroups \in {<<>>}

\* Blueprints that vary the validators and the policy.
InitValidators ==
    /\ Vars \in {VarsFull}
    /\ ValidationLevel \in {validationError, validationWarning, validationIgnore}
    /\ Validators \in SeqsUpTo(Invocations, MaxValidators)
    /\ ResourceGroups \in {<<>>}

\* Blueprints that vary the resource groups.
InitResources ==
    /\ Vars \in {VarsFull}
    /\ ValidationLevel \in {validationWarning}
    /\ Validators \in {<<Invocation(testZoneExistsName, {"project_id", "zone"})>>}
    /\ ResourceGroups \in GroupLists

Init == Start /\ (InitVars \/ InitValidators \/ InitResources)

Next ==
    \/ ValidateVars
    \/ ExecuteValidatorsEnter
    \/ DispatchStep
    \/ ExecuteValidatorsReturn
    \/ ValidateResourcesEnter
    \/ ValidateResourcesStep
    \/ ValidateResourcesReturn
    \/ ValidateResourceSettingsEnter
    \/ ValidateResourceSettingsStep
    \/ ValidateResourceSettingsReturn

Spec == Init /\ [][Next]_vars

(***************************************************************************)
(* The functions called on their own, as the package's tests call them.    *)
(***************************************************************************)
Tokens == {"((", "))", ".", "var", "project_id"}

\* Every reference of at most MaxRefLen tokens, some longer ones, and values
\* that are no strings.
RefInputs ==
    {Str(s) : s \in SeqsUpTo(Tokens, MaxRefLen)}
    \cup {Str(<<"((", "var", ".", "project_id", ".", "id", "))">>),
          Str(<<"((", "module", ".", "project_id", "))">>),
          Str(<<"((", "var", ".", "missing_key", "))">>),
          IntVal, MapVal, Nil}

UnitTables ==
    UNION {[S -> {Str(<<"my-proj">>), IntVal, MapVal, Nil}] :
              S \in SUBSET {"project_id"}}

InputKeys == {"project_id", "region", "zone", "extra"}

DupFreeSeqs(S, n) ==
    {s \in SeqsUpTo(S, n) : \A a, b \in DOMAIN s : a # b => s[a] # s[b]}

CallGetStringValue ==
    /\ pc = "call"
    /\ call.fn = "getStringValue"
    /\ ret' = getStringValue(Vars, call.inputReference)
    /\ pc' = "returned"
    /\ UNCHANGED <<Vars, ValidationLevel, Validators, ResourceGroups, i, g, r,
                   errored, warned, log, trace, call>>

CallTestInputList ==
    /\ pc = "call"
    /\ call.fn = "testInputList"
    /\ LET o == testInputList(call.function, call.inputs, call.requiredInputs) IN
          /\ ret' = o
          /\ log' = log \o o.log
    /\ pc' = "returned"
    /\ UNCHANGED <<Vars, ValidationLevel, Validators, ResourceGroups, i, g, r,
                   errored, warned, trace, call>>

CallHandler ==
    /\ pc = "call"
    /\ call.fn = "handler"
    /\ \E perr \in ProviderAnswers :
          LET o == callHandler(call.name, Vars, call.validator, perr) IN
          /\ ret' = o
          /\ log' = log \o o.log
          /\ trace' = trace \o <<Event("call", call.name, <<>>, o.err)>> \o o.events
    /\ pc' = "returned"
    /\ UNCHANGED <<Vars, ValidationLevel, Validators, ResourceGroups, i, g, r,
                   errored, warned, call>>

InitUnit ==
    /\ pc = "call"
    /\ i = 1
    /\ g = 1
    /\ r = 1
    /\ errored = FALSE
    /\ warned = FALSE
    /\ log = <<>>
    /\ trace = <<>>
    /\ ret = [err |-> NoError]
    /\ ValidationLevel = validationError
    /\ Validators = <<>>
    /\ ResourceGroups = <<>>
    /\ \/ /\ Vars \in UnitTables
          /\ call \in {[fn |-> "getStringValue", inputReference |-> x, table |-> Vars] :
                          x \in RefInputs}
       \/ /\ Vars = VarsFull
          /\ call \in {[fn |-> "testInputList", function |-> testRegionExistsName,
                        inputs |-> [k \in S |-> Ref(k)], requiredInputs |-> q] :
                          S \in SUBSET InputKeys, q \in DupFreeSeqs(InputKeys, MaxRequired)}
       \/ /\ Vars \in {VarsFull, VarsPartial}
          /\ call \in {[fn |-> "handler", name |-> n, validator |-> v] :
                          n \in getValidators, v \in Invocations}

NextUnit ==
    \/ CallGetStringValue
    \/ CallTestInputList
    \/ CallHandler

SpecUnit == InitUnit /\ [][NextUnit]_vars

(***************************************************************************)
(* What the claims speak of, read off the log and the trace.               *)
(***************************************************************************)
StageOrder ==
    <<"validateVars", "executeValidators", "validateResources",
      "validateResourceSettings">>

Returns(fn) == SelectSeq(trace, LAMBDA e : e.ev = "return" /\ e.fn = fn)

Returned(fn) == Returns(fn) # <<>>

ReturnOf(fn) == Returns(fn)[1].err

\* The invocations the dispatch loop took up: handler calls and lookup misses.
Dispatched ==
    SelectSeq(trace, LAMBDA e :
        \/ e.ev = "lookup miss"
        \/ e.ev = "call" /\ e.fn \in getValidators)

FailedHandlers ==
    SelectSeq(trace, LAMBDA e :
        e.ev = "call" /\ e.fn \in getValidators /\ IsErr(e.err))

LookupMisses == SelectSeq(trace, LAMBDA e : e.ev = "lookup miss")

ProviderQueries ==
    SelectSeq(trace, LAMBDA e :
        e.fn \in {"validators.TestProjectExists", "validators.TestRegionExists",
                  "validators.TestZoneExists", "validators.TestZoneInRegion"})

\* The lines executeValidators itself writes for a failure.
FailureLines ==
    SelectSeq(log, LAMBDA l :
        l.msg \in {"error: ", "warning: ", "is not an implemented validator"})

HasUnimplemented == \E k \in DOMAIN Validators : Validators[k].Validator \notin getValidators

\* C1: executeValidators returns the validation-failed error exactly when an
\* invocation had no handler, or a handler failed under a policy other than
\* WARNING; failures of handlers under WARNING leave the return nil.
C1_ErrorIffErrorClassified ==
    Returned("executeValidators") =>
        /\ IsErr(ReturnOf("executeValidators"))
              <=> \/ LookupMisses # <<>>
                  \/ FailedHandlers # <<>> /\ ValidationLevel # validationWarning
        /\ IsErr(ReturnOf("executeValidators"))
              => ReturnOf("executeValidators").kind = validationErrorMsg

C1_Witness ==
    /\ Returned("executeValidators")
    /\ ValidationLevel = validationWarning
    /\ FailedHandlers # <<>>
    /\ ~IsErr(ReturnOf("executeValidators"))

\* C2: under IGNORE executeValidators calls no handler, looks up nothing,
\* queries no provider, writes no line and returns nil, whatever the list.
C2_IgnoreRunsNothing ==
    ValidationLevel = validationIgnore =>
        /\ Dispatched = <<>>
        /\ ProviderQueries = <<>>
        /\ \A k \in DOMAIN log : log[k].msg = "WARNING: No project_id in global variables"
        /\ Returned("executeValidators") => ~IsErr(ReturnOf("executeValidators"))

C2_Witness ==
    /\ ValidationLevel = validationIgnore
    /\ Returned("executeValidators")
    /\ Len(Validators) >= 2
    /\ \A k \in DOMAIN Validators :
          \/ Validators[k].Validator \notin getValidators
          \/ DOMAIN Validators[k].Inputs = {}

\* C3 as stated: under every policy a list with an unimplemented validator
\* makes executeValidators return the error.
C3_UnimplementedFatalAnyPolicy ==
    (Returned("executeValidators") /\ HasUnimplemented)
        => IsErr(ReturnOf("executeValidators"))

\* C3 amended: under WARNING and under ERROR a list with an unimplemented
\* validator makes executeValidators return the error.
C3_UnimplementedFatalUnlessIgnore ==
    (Returned("executeValidators") /\ HasUnimplemented
        /\ ValidationLevel # validationIgnore)
        => /\ IsErr(ReturnOf("executeValidators"))
           /\ \E k \in DOMAIN log : log[k].msg = "is not an implemented validator"

C3_Witness ==
    /\ Returned("executeValidators")
    /\ HasUnimplemented
    /\ ValidationLevel = validationWarning
    /\ FailedHandlers = <<>>
    /\ IsErr(ReturnOf("executeValidators"))

\* C4: under WARNING or ERROR the loop takes up the invocations one by one in
\* declaration order, each once, whatever the earlier ones did; when
\* executeValidators returns every invocation has been taken up, and it has
\* written one failure line per invocation that failed.
C4_DispatchExhaustive ==
    ValidationLevel # validationIgnore =>
        /\ Len(Dispatched) <= Len(Validators)
        /\ \A k \in DOMAIN Dispatched :
              /\ Dispatched[k].at = <<k>>
              /\ Dispatched[k].fn = Validators[k].Validator
        /\ Returned("executeValidators") =>
              /\ Len(Dispatched) = Len(Validators)
              /\ Len(FailureLines)
                    = Cardinality({k \in DOMAIN Dispatched : IsErr(Dispatched[k].err)})

C4_Witness ==
    /\ Returned("executeValidators")
    /\ Len(Dispatched) = 3
    /\ IsErr(Dispatched[1].err)
    /\ ~IsErr(Dispatched[2].err)
    /\ IsErr(Dispatched[3].err)
    /\ Len(FailureLines) = 2

\* C5: testInputList returns an error exactly when the keys supplied are not
\* the set of required inputs.
C5_InputListExact ==
    (pc = "returned" /\ call.fn = "testInputList") =>
        (IsErr(ret.err) <=> DOMAIN call.inputs # Range(call.requiredInputs))

C5_Witness ==
    /\ pc = "returned"
    /\ call.fn = "testInputList"
    /\ Cardinality(DOMAIN call.inputs) = Len(call.requiredInputs)
    /\ Len(call.requiredInputs) = 2
    /\ Cardinality(DOMAIN call.inputs \cap Range(call.requiredInputs)) = 1
    /\ IsErr(ret.err)

\* The value a reference stands for: it is a string (( var . name ... )) whose
\* name is a key of the table holding a string.
Resolvable(table, x) ==
    /\ x.t = "string"
    /\ \E k \in DOMAIN table :
          /\ table[k].t = "string"
          /\ Len(x.v) >= 5
          /\ SubSeq(x.v, 1, 4) = <<"((", "var", ".", k>>
          /\ x.v[Len(x.v)] = "))"
          /\ Len(x.v) > 5 => x.v[5] = "."

Resolved(table, x) == table[x.v[4]].v

HasNil == \E k \in DOMAIN Vars : Vars[k].t = Nil.t

\* C7 as stated: a table with a nil value makes validateVars fail with an
\* error that names a nil-valued key (the labels error names labels).
C7_NilAlwaysNamed ==
    (Returned("validateVars") /\ HasNil) =>
        \/ /\ ReturnOf("validateVars").kind = "global variable was not set"
           /\ ReturnOf("validateVars").name \in DOMAIN Vars
           /\ Vars[ReturnOf("validateVars").name].t = Nil.t
        \/ /\ ReturnOf("validateVars").kind = "vars.labels must be a map"
           /\ Vars["labels"].t = Nil.t

\* C7 amended: a table with a nil value makes validateVars fail; the error
\* names a nil-valued key when the table has no labels entry or its labels
\* entry is a map, and is the labels error otherwise.
C7_NilFails ==
    (Returned("validateVars") /\ HasNil) =>
        /\ IsErr(ReturnOf("validateVars"))
        /\ pc = "fatal"
        /\ IF "labels" \in DOMAIN Vars /\ Vars["labels"].t # MapVal.t
           THEN ReturnOf("validateVars").kind = "vars.labels must be a map"
           ELSE /\ ReturnOf("validateVars").kind = "global variable was not set"
                /\ ReturnOf("validateVars").name \in DOMAIN Vars
                /\ Vars[ReturnOf("validateVars").name].t = Nil.t

C7_Witness ==
    /\ Returned("validateVars")
    /\ Cardinality({k \in DOMAIN Vars : Vars[k].t = Nil.t}) = 2
    /\ "labels" \in DOMAIN Vars
    /\ Vars["labels"].t = MapVal.t
    /\ ReturnOf("validateVars").name = "zone"

StageEvents ==
    SelectSeq(trace, LAMBDA e :
        e.ev \in {"call", "return"} /\ e.fn \in Range(StageOrder))

\* call and return of each stage, in the order validate makes them.
FullRun ==
    [k \in 1..(2 * Len(StageOrder)) |->
        [ev |-> IF k % 2 = 1 THEN "call" ELSE "return",
         fn |-> StageOrder[(k + 1) \div 2]]]

\* C8: validate calls validateVars, executeValidators, validateResources and
\* validateResourceSettings in this order, each after the one before it has
\* returned nil; a stage that returns an error is the last to run and the
\* process is then ended by log.Fatal.
C8_StagesInOrder ==
    LET se == StageEvents
        n == Len(se)
    IN
    (call.fn = "validate") =>
        /\ n <= Len(FullRun)
        /\ \A k \in 1..n :
              /\ se[k].ev = FullRun[k].ev
              /\ se[k].fn = FullRun[k].fn
              /\ IsErr(se[k].err) =>
                    /\ se[k].ev = "return"
                    /\ k = n
                    /\ pc = "fatal"
        /\ pc = "fatal" => IsErr(se[n].err)
        /\ pc = "done" => n = Len(FullRun)

C8_Witness ==
    /\ pc = "fatal"
    /\ Len(StageEvents) = 6
    /\ IsErr(ReturnOf("validateResources"))
    /\ Dispatched # <<>>

FailedLines(name) ==
    SelectSeq(log, LAMBDA l : l.msg = "validator failed" /\ l.name = name)

FailedCalls(name) ==
    SelectSeq(trace, LAMBDA e : e.ev = "call" /\ e.fn = name /\ IsErr(e.err))

\* C9: every failure of a precondition validator is logged with the
\* validator's name: the log holds a "validator <name> failed" line for each
\* call of the handler that returned an error.
C9_FailureLogged ==
    \A name \in getValidators :
        Len(FailedLines(name)) >= Len(FailedCalls(name))

\* The resources in declaration order, as group and index.
RECURSIVE AllPositions(_, _)
AllPositions(groups, gg) ==
    IF gg > Len(groups) THEN <<>>
    ELSE [k \in 1..Len(groups[gg].Resources) |-> <<gg, k>>]
         \o AllPositions(groups, gg + 1)

\* Two checks per resource, in declaration order.
Expected(first, second) ==
    LET ps == AllPositions(ResourceGroups, 1) IN
    [k \in 1..(2 * Len(ps)) |->
        [fn |-> IF k % 2 = 1 THEN first ELSE second, at |-> ps[(k + 1) \div 2]]]

Checks(first, second) == SelectSeq(trace, LAMBDA e : e.fn \in {first, second})

\* The checks made so far are the first ones of the declaration order; only
\* the last of them may have failed, and the stage has then returned an
\* error; a stage that returns nil has made them all.
FailFast(stage, first, second) ==
    LET cs == Checks(first, second)
        ex == Expected(first, second)
        n == Len(cs)
        rs == Returns(stage)
    IN
    /\ n <= Len(ex)
    /\ \A k \in 1..n :
          /\ cs[k].fn = ex[k].fn
          /\ cs[k].at = ex[k].at
          /\ IsErr(cs[k].err) =>
                /\ k = n
                /\ rs # <<>>
                /\ IsErr(rs[1].err)
    /\ rs # <<>> =>
          IF IsErr(rs[1].err)
          THEN n > 0 /\ IsErr(cs[n].err)
          ELSE n = Len(ex)

\* C10: validateResources runs validateResource and then validateOutputs on
\* the resources in declaration order and returns at the first failure, the
\* error it returns being that check's; validateResourceSettings does the
\* same with the metadata fetch and validateSettings; no resource after the
\* failing one is fetched or checked.
C10_ResourceStagesFailFast ==
    /\ FailFast("validateResources", "validateResource", "validateOutputs")
    /\ FailFast("validateResourceSettings", "GetResourceInfo", "validateSettings")
    /\ (Returned("validateResources") /\ IsErr(ReturnOf("validateResources"))) =>
          LET cs == Checks("validateResource", "validateOutputs") IN
          ReturnOf("validateResources").kind = cs[Len(cs)].err.kind

C10_Witness ==
    LET cs == Checks("validateResource", "validateOutputs") IN
    /\ Returned("validateResources")
    /\ IsErr(ReturnOf("validateResources"))
    /\ Len(cs) = 4
    /\ cs[4].fn = "validateOutputs"
    /\ cs[4].at = <<2, 1>>
    /\ Len(AllPositions(ResourceGroups, 1)) = 3

====
